---- MODULE Spec2Model ----
(***************************************************************************)
(* Copy-on-write address spaces (lib/Core/AddressSpace.h) and pointer      *)
(* resolution of the KLEE symbolic virtual machine.                        *)
(*                                                                         *)
(* An AddressSpace is a persistent map  MemoryObject -> ObjectState  plus  *)
(* an epoch counter cowKey.  ObjectStates live on a heap and are shared by *)
(* reference between address spaces; copyOnWriteOwner stamps the epoch of  *)
(* the address space that may mutate the ObjectState in place.             *)
(***************************************************************************)
EXTENDS Integers, Sequences, FiniteSets, TLC

\* ------------------------------------------------------------------ bounds

\* number of AddressSpace instances that may exist at the same time
MaxAS == 3
\* number of MemoryObjects
NumMO == 1
\* cap on cowKey: copy-construction is not explored beyond this epoch
MaxKey == 3
\* byte values written at offset 0 of an ObjectState are 0..MaxByte
MaxByte == 1

\* weights of DistanceResults are 0..MaxWeight
MaxWeight == 2
\* getDistance computes a new entry only while the cache holds fewer than this
MaxCacheEntries == 3

\* number of MemoryObjects of the resolution model
NumRObj == 3
\* a MemoryObject of the resolution model is empty or MaxSize bytes long
MaxSize == 2
\* a symbolic pointer has between 1 and MaxPtrValues feasible values
MaxPtrValues == 3
\* maxResolutions is drawn from 0..MaxMaxResolutions
MaxMaxResolutions == 3
\* the timeout is drawn from 0..MaxTimeout clock ticks
MaxTimeout == 1

ASIds == 1..MaxAS
MOs == 1..NumMO
\* every binding may hold its own ObjectState, plus the one being rebound
OSIds == 1..(MaxAS * NumMO + 1)
Bytes == 0..MaxByte
\* "no ObjectState": the null binding / null pointer
NoOS == 0

VARIABLES
  alive,     \* alive[a]: AddressSpace a is constructed and not yet destroyed
  cowKey,    \* cowKey[a]: AddressSpace::cowKey
  objects,   \* objects[a][mo]: the ObjectState bound to mo in a, or NoOS
  complete,  \* complete[a]: AddressSpace::complete
  heap,      \* heap[os]: the ObjectState instances
  last,      \* the operation that produced this state
  \* --- pointer resolution on one address space
  rmap,      \* its objects map: the bound MemoryObjects in iteration order
  rsize,     \* rsize[mo]: the size of MemoryObject mo
  rcopied,   \* the address space is a copy (it was copy-constructed)
  haltExecution, \* the external halt flag
  rcall,     \* the resolution call in progress: arguments, position, results
  \* --- the process memory the concrete values are copied to and from
  mem,       \* mem[mo]: the byte at the address MemoryObject mo was allocated at
  cret,      \* the last copyInConcretes: what it returned (ok), and whether it
             \* came right after copyOutConcretes on the same address space
  \* --- DistanceCalculator
  dcmp,      \* the DistanceResults last compared and what operator< returned
  pc,        \* the KBlock of the execution state's program counter
  frames,    \* its call stack: the call blocks of the callers, outermost first
  distanceResultCache, \* DistanceCalculator::distanceResultCache, its entries
  postTargetWeight,    \* what tryGetPostTargetWeight gave for (kb, target) so far
  dres       \* the last getDistance call: its arguments and what it returned

cowvars == <<alive, cowKey, objects, complete, heap, last>>
rvars == <<rmap, rsize, rcopied, haltExecution, rcall>>
cvars == <<mem, cret>>
dvars == <<dcmp, pc, frames, distanceResultCache, postTargetWeight, dres>>
vars == <<alive, cowKey, objects, complete, heap, last,
          rmap, rsize, rcopied, haltExecution, rcall, mem, cret, dcmp,
          pc, frames, distanceResultCache, postTargetWeight, dres>>

\* ------------------------------------------------------------ ObjectState

\* a heap slot holding no ObjectState
FreeOS == [used |-> FALSE, copyOnWriteOwner |-> 0, contents |-> 0, readOnly |-> FALSE]

\* ObjectState created for a binding: contents v, no owner yet
NewObjectState(v) ==
  [used |-> TRUE, copyOnWriteOwner |-> 0, contents |-> v, readOnly |-> FALSE]

\* ObjectState(const ObjectState &): the contents and the read-only mark are
\* kept, the owner is reset
CopyObjectState(os) ==
  [used |-> TRUE, copyOnWriteOwner |-> 0, contents |-> os.contents,
   readOnly |-> os.readOnly]

\* ------------------------------------------------------------ AddressSpace

EmptyMap == [mo \in MOs |-> NoOS]

\* the ObjectStates a map refers to
Range(m) == {m[mo] : mo \in MOs} \ {NoOS}

\* the number of bindings of a map
MapSize(m) == Cardinality({mo \in MOs : m[mo] # NoOS})

\* findObject(mo): the binding of mo in a (NoOS when there is none)
findObject(a, mo) == objects[a][mo]

\* what reading offset 0 through findObject(mo) on a yields (-1: not bound)
ReadThrough(h, objs, a, mo) == IF objs[a][mo] = NoOS THEN -1 ELSE h[objs[a][mo]].contents

\* "The set of objects where o->copyOnWriteOwner == cowKey are the objects
\* that we own."
OwnsLoose(key, os) == os.copyOnWriteOwner <= key
Owns(key, os) == os.copyOnWriteOwner = key

\* the slot a new ObjectState is allocated in: the one past every binding
FreshOS == MaxAS * NumMO + 1

\* Pointer values are not observable: after every operation the heap slots are
\* renumbered in the order in which the maps (address space by address space,
\* MemoryObject by MemoryObject) first refer to them.  An ObjectState no map
\* refers to any more (ref<ObjectState>) is destroyed.
Held(objs) == UNION {Range(objs[a]) : a \in ASIds}
PosAS(p) == ((p - 1) \div NumMO) + 1
PosMO(p) == ((p - 1) % NumMO) + 1
RECURSIVE FirstRefs(_, _, _)
FirstRefs(objs, p, seen) ==
  IF p > MaxAS * NumMO THEN seen
  ELSE LET o == objs[PosAS(p)][PosMO(p)] IN
       FirstRefs(objs, p + 1,
                 IF o = NoOS \/ \E i \in 1..Len(seen) : seen[i] = o
                 THEN seen ELSE Append(seen, o))
\* the number slot o gets under the order ord
IndexOf(ord, o) == IF o = NoOS THEN NoOS ELSE CHOOSE i \in 1..Len(ord) : ord[i] = o
Renumbered(objs, ord) ==
  [a \in ASIds |-> [mo \in MOs |-> IndexOf(ord, objs[a][mo])]]
Compacted(h, ord) ==
  [i \in OSIds |-> IF i <= Len(ord) THEN h[ord[i]] ELSE FreeOS]

\* the slot a new AddressSpace is constructed in
FreshAS == CHOOSE a \in ASIds : ~alive[a] /\ \A b \in ASIds : ~alive[b] => a <= b

\* ++k on an unsigned; k stays below MaxKey, far from the wrap at 2^32
PreIncrement(k) == k + 1

\* AddressSpace() : cowKey(1)
DefaultCowKey == 1

\* cowKey(++b.cowKey): the value the copy's cowKey is initialised with
CopyKeyPostIncrement(k) == k
CopyKeyDefault(k) == 1
CopyKey(k) == PreIncrement(k)

\* cowKey(++b.cowKey): b.cowKey (mutable) after the copy was constructed
SourceKeyUntouched(k) == k
SourceKeyAdvancedTwice(k) == k + 2
SourceKeyAfterCopy(k) == PreIncrement(k)

\* objects(b.objects): the persistent map is shared, no ObjectState is copied
CopyObjectsEmpty(m) == EmptyMap
CopyObjects(m) == m

\* complete(b.complete)
CopyCompleteDefault(c) == FALSE
CopyComplete(c) == c

NoOp == [op |-> "init", as |-> 0, mo |-> 0, ret |-> NoOS, fresh |-> FALSE]

\* no resolution call in progress
NoCall == [phase |-> "idle", ptr |-> {}, maxResolutions |-> 0, timeout |-> 0,
           elapsed |-> 0, cursor |-> 0, rl |-> <<>>, incomplete |-> FALSE,
           stop |-> "none", one |-> [success |-> FALSE, mo |-> 0, incomplete |-> FALSE]]

InitResolution ==
  /\ rmap = <<>>
  /\ rsize = [m \in 1..NumRObj |-> 0]
  /\ rcopied = FALSE
  /\ haltExecution = FALSE
  /\ rcall = NoCall

InitCow ==
  /\ alive = [a \in ASIds |-> a = 1]
  /\ cowKey = [a \in ASIds |-> IF a = 1 THEN DefaultCowKey ELSE 0]
  /\ objects = [a \in ASIds |-> EmptyMap]
  /\ complete = [a \in ASIds |-> FALSE]
  /\ heap = [o \in OSIds |-> FreeOS]
  /\ last = NoOp

InitConcretes ==
  /\ mem = [mo \in MOs |-> 0]
  /\ cret = [ok |-> TRUE, afterCopyOut |-> FALSE]

\* ------------------------------------------------------------ DistanceResult

\* enum WeightResult : std::uint8_t
Done == 0
Continue == 1
Miss == 2
WeightResult == {Done, Continue, Miss}

\* struct DistanceResult
DistanceResults ==
  [result : WeightResult, weight : 0..MaxWeight, isInsideFunction : BOOLEAN]

\* DistanceResult(result_ = WeightResult::Miss, weight_ = 0,
\*                isInsideFunction_ = true)
DefaultDistanceResult == [result |-> Miss, weight |-> 0, isInsideFunction |-> TRUE]

\* bool DistanceResult::operator<(const DistanceResult &b) const
DistanceResultLessInsideFirst(a, b) ==
  IF a.isInsideFunction # b.isInsideFunction THEN a.isInsideFunction
  ELSE IF a.result # b.result THEN a.result < b.result
  ELSE a.weight < b.weight
DistanceResultLessAny(a, b) == a.result < b.result \/ a.weight < b.weight
DistanceResultLess(a, b) ==
  IF a.result # b.result THEN a.result < b.result
  ELSE IF a.weight # b.weight THEN a.weight < b.weight
  ELSE a.isInsideFunction /\ ~b.isInsideFunction

\* x[1], x[2], x[3] compared pairwise: lt[i][j] is what x[i] < x[j] returns
Compared(x) ==
  [x |-> x, lt |-> [i \in 1..3 |-> [j \in 1..3 |-> DistanceResultLess(x[i], x[j])]]]

\* ---------------------------------------------------------- the code graph

\* KFunctions and their KBlocks.  main has the shape of while_true.c: an entry
\* block, a call, the loop test m3, the loop body m4 and the block m5 after
\* the loop; foo and bar are called, baz is not.
KFunctions == {"main", "foo", "bar", "baz"}
KBlocks == {"m0", "m1", "m2", "m3", "m4", "m5", "f0", "f1", "b0", "z0"}

\* KBlock::parent
Parent(kb) ==
  IF kb \in {"m0", "m1", "m2", "m3", "m4", "m5"} THEN "main"
  ELSE IF kb \in {"f0", "f1"} THEN "foo"
  ELSE IF kb = "b0" THEN "bar" ELSE "baz"

\* the entry block of a function
Entry(kf) ==
  IF kf = "main" THEN "m0" ELSE IF kf = "foo" THEN "f0"
  ELSE IF kf = "bar" THEN "b0" ELSE "z0"

\* the successors of a block in its function's control-flow graph
Successors(kb) ==
  IF kb = "m0" THEN {"m1"} ELSE IF kb = "m1" THEN {"m2"}
  ELSE IF kb = "m2" THEN {"m3"} ELSE IF kb = "m3" THEN {"m4", "m5"}
  ELSE IF kb = "m4" THEN {"m3"} ELSE IF kb = "f0" THEN {"f1"} ELSE {}

\* the call blocks and the functions they call
CallBlocks == {"m1", "m4", "f0"}
Callee(kb) == IF kb = "m1" THEN "foo" ELSE "bar"

\* the block a call returns to
ReturnBlock(kb) == CHOOSE b \in Successors(kb) : TRUE

\* the blocks a target may be
Targets == {"m5", "b0", "z0"}

\* "no distance": larger than any distance in the graph
Unreachable == 99

\* CodeGraphDistance: breadth-first distance over the edges succ, a function
\* from a node to the set of its successors
RECURSIVE DistanceFrom(_, _, _, _, _)
DistanceFrom(succ, frontier, seen, goal, d) ==
  IF goal \in frontier THEN d
  ELSE LET next == UNION {succ[x] : x \in frontier} \ seen
       IN IF next = {} THEN Unreachable
          ELSE DistanceFrom(succ, next, seen \cup next, goal, d + 1)

\* a distance that only tells whether b is a itself
BlockDistanceAtOrAway(a, b) == IF a = b THEN 0 ELSE 1

\* distance from block a to block b within their function
BlockDistance(a, b) ==
  DistanceFrom([kb \in KBlocks |-> Successors(kb)], {a}, {a}, b, 0)

\* the functions a function calls, and the distance in the call graph
Calls(kf) == {Callee(c) : c \in {c \in CallBlocks : Parent(c) = kf}}
FunctionDistance(f, g) ==
  DistanceFrom([kf \in KFunctions |-> Calls(kf)], {f}, {f}, g, 0)

SetMin(S) == CHOOSE x \in S : \A y \in S : x <= y

\* enum TargetKind : std::uint8_t
LocalTarget == 0
PreTarget == 1
PostTarget == 2
NoneTarget == 3

\* the functions of the frames below the current one, outermost first
FrameFunctions(fr) == [i \in 1..Len(fr) |-> Parent(fr[i])]

\* getDistance(prevPC, pc, frames, target): the kind of target for block kb
\* under the call stack fr
Classify(kb, fr, target) ==
  IF Parent(kb) = Parent(target) THEN LocalTarget
  ELSE IF FunctionDistance(Parent(kb), Parent(target)) # Unreachable THEN PreTarget
  ELSE IF \E i \in 1..Len(fr) :
            FunctionDistance(Parent(fr[i]), Parent(target)) # Unreachable
       THEN PostTarget
  ELSE NoneTarget

\* tryGetPreTargetWeight: the least distance to a call block whose callee
\* reaches the target's function, plus the call-graph distance from there
PreWeight(kb, target) ==
  LET sites == {c \in CallBlocks :
                  /\ Parent(c) = Parent(kb)
                  /\ BlockDistance(kb, c) # Unreachable
                  /\ FunctionDistance(Callee(c), Parent(target)) # Unreachable}
  IN IF sites = {} THEN Unreachable
     ELSE SetMin({BlockDistance(kb, c) + FunctionDistance(Callee(c), Parent(target))
                    : c \in sites})

\* a weight taken from the entry of b's function instead of from b
WeightFromEntry(b, target) == BlockDistance(Entry(Parent(b)), target)

\* the weight from block b on to the target: within the function when the
\* target is there, else to a call that leads to it
WeightFrom(b, target) ==
  IF Parent(b) = Parent(target) THEN BlockDistance(b, target) ELSE PreWeight(b, target)

\* the weight of a post target as the frames give it: the least weight, over
\* the frames whose function is or reaches the target's, from the block the
\* frame returns to
FrameWeight(fr, target) ==
  LET ws == {WeightFrom(ReturnBlock(fr[i]), target) :
               i \in {i \in 1..Len(fr) :
                        FunctionDistance(Parent(fr[i]), Parent(target)) # Unreachable}}
  IN IF ws = {} THEN Unreachable ELSE SetMin(ws)

\* no weight was computed for (kb, target) yet
NoWeight == -1

\* a DistanceResult of a weight: Miss, 0 when there is no path
Weighted(w, inside) ==
  IF w = Unreachable
  THEN [result |-> Miss, weight |-> 0, isInsideFunction |-> inside]
  ELSE [result |-> Continue, weight |-> w, isInsideFunction |-> inside]

\* computeDistance(kb, kind, target) const.  It is not passed the frames: the
\* weight of a post target is what tryGetPostTargetWeight(kb, weight, target)
\* gives for the block and the target, post[kb][target].
computeDistance(kb, kind, target, post) ==
  IF kind = LocalTarget
  THEN LET w == BlockDistance(kb, target) IN
       IF w = 0 THEN [result |-> Done, weight |-> 0, isInsideFunction |-> TRUE]
       ELSE Weighted(w, TRUE)
  ELSE IF kind = PreTarget THEN Weighted(PreWeight(kb, target), FALSE)
  ELSE IF kind = PostTarget THEN Weighted(post[kb][target], FALSE)
  ELSE DefaultDistanceResult

\* no getDistance call was made since the program counter moved
NoQuery == [target |-> "", kind |-> NoneTarget, hit |-> FALSE,
            result |-> DefaultDistanceResult]

InitDistance ==
  /\ dcmp = Compared(<<DefaultDistanceResult, DefaultDistanceResult,
                       DefaultDistanceResult>>)
  /\ pc = Entry("main")
  /\ frames = <<>>
  /\ distanceResultCache = {}
  /\ postTargetWeight = [kb \in KBlocks |-> [t \in Targets |-> NoWeight]]
  /\ dres = NoQuery

Init == InitCow /\ InitResolution /\ InitConcretes /\ InitDistance

\* AddressSpace(): a new, empty address space
Construct ==
  /\ UNCHANGED <<rvars, cvars, dvars>>
  /\ \E a \in ASIds : ~alive[a]
  /\ LET n == FreshAS IN
       /\ alive' = [alive EXCEPT ![n] = TRUE]
       /\ cowKey' = [cowKey EXCEPT ![n] = DefaultCowKey]
       /\ objects' = [objects EXCEPT ![n] = EmptyMap]
       /\ complete' = [complete EXCEPT ![n] = FALSE]
       /\ last' = [NoOp EXCEPT !.op = "construct"]
  /\ UNCHANGED heap

\* AddressSpace(const AddressSpace &b); last.ret names the source b
CopyConstruct(b) ==
  /\ UNCHANGED <<rvars, cvars, dvars>>
  /\ alive[b]
  /\ \E a \in ASIds : ~alive[a]
  /\ cowKey[b] < MaxKey
  /\ \E n \in {FreshAS} :
     \E objs \in {[objects EXCEPT ![n] = CopyObjects(objects[b])]} :
     \E ord \in {FirstRefs(objs, 1, <<>>)} :
       /\ alive' = [alive EXCEPT ![n] = TRUE]
       /\ cowKey' = [cowKey EXCEPT ![b] = SourceKeyAfterCopy(cowKey[b]),
                                   ![n] = CopyKey(cowKey[b])]
       /\ objects' = Renumbered(objs, ord)
       /\ heap' = Compacted(heap, ord)
       /\ complete' = [complete EXCEPT ![n] = CopyComplete(complete[b])]
       /\ last' = [NoOp EXCEPT !.op = "copy", !.as = n, !.ret = b]

\* ~AddressSpace(): the map drops its references
Destroy(a) ==
  /\ UNCHANGED <<rvars, cvars, dvars>>
  /\ alive[a]
  /\ \E b \in ASIds : b # a /\ alive[b]
  /\ \E objs \in {[objects EXCEPT ![a] = EmptyMap]} :
     \E ord \in {FirstRefs(objs, 1, <<>>)} :
       /\ objects' = Renumbered(objs, ord)
       /\ heap' = Compacted(heap, ord)
  /\ alive' = [alive EXCEPT ![a] = FALSE]
  /\ cowKey' = [cowKey EXCEPT ![a] = 0]
  /\ complete' = [complete EXCEPT ![a] = FALSE]
  /\ last' = [NoOp EXCEPT !.op = "destroy"]

\* complete is a public mutable member: callers assign it
SetComplete(a, c) ==
  /\ UNCHANGED <<rvars, cvars, dvars>>
  /\ alive[a]
  /\ complete[a] # c
  /\ complete' = [complete EXCEPT ![a] = c]
  /\ last' = [NoOp EXCEPT !.op = "setComplete"]
  /\ UNCHANGED <<alive, cowKey, objects, heap>>

\* bindObject(mo, os) with a newly created ObjectState os of contents v:
\* os is stamped with cowKey and the binding is inserted or overwritten
bindObject(a, mo, v) ==
  /\ UNCHANGED <<rvars, cvars, dvars>>
  /\ alive[a]
  /\ \E h \in {[heap EXCEPT ![FreshOS] =
                  [NewObjectState(v) EXCEPT !.copyOnWriteOwner = cowKey[a]]]} :
     \E objs \in {[objects EXCEPT ![a][mo] = FreshOS]} :
     \E ord \in {FirstRefs(objs, 1, <<>>)} :
       /\ objects' = Renumbered(objs, ord)
       /\ heap' = Compacted(h, ord)
       /\ last' = [NoOp EXCEPT !.op = "bindObject"]
  /\ UNCHANGED <<alive, cowKey, complete>>

\* unbindObject(mo)
unbindObject(a, mo) ==
  /\ UNCHANGED <<rvars, cvars, dvars>>
  /\ alive[a]
  /\ objects[a][mo] # NoOS
  /\ \E objs \in {[objects EXCEPT ![a][mo] = NoOS]} :
     \E ord \in {FirstRefs(objs, 1, <<>>)} :
       /\ objects' = Renumbered(objs, ord)
       /\ heap' = Compacted(heap, ord)
  /\ last' = [NoOp EXCEPT !.op = "unbindObject"]
  /\ UNCHANGED <<alive, cowKey, complete>>

\* getWriteable(mo, os), os the current binding of mo: os itself when the
\* address space owns it, else a copy stamped with cowKey and rebound to mo.
\* last.ret is the ObjectState returned, last.fresh whether it is a new one.
getWriteableNeverCopies(key, os) == TRUE
getWriteableInPlace(key, os) == Owns(key, os)
getWriteable(a, mo) ==
  /\ UNCHANGED <<rvars, cvars, dvars>>
  /\ alive[a]
  /\ objects[a][mo] # NoOS
  /\ LET os == findObject(a, mo) IN
       IF getWriteableInPlace(cowKey[a], heap[os])
       THEN /\ last' = [op |-> "getWriteable", as |-> a, mo |-> mo,
                        ret |-> os, fresh |-> FALSE]
            /\ UNCHANGED <<objects, heap>>
       ELSE \E h \in {[heap EXCEPT ![FreshOS] =
                         [CopyObjectState(heap[os]) EXCEPT
                            !.copyOnWriteOwner = cowKey[a]]]} :
            \E objs \in {[objects EXCEPT ![a][mo] = FreshOS]} :
            \E ord \in {FirstRefs(objs, 1, <<>>)} :
               /\ objects' = Renumbered(objs, ord)
               /\ heap' = Compacted(h, ord)
               /\ last' = [op |-> "getWriteable", as |-> a, mo |-> mo,
                           ret |-> IndexOf(ord, FreshOS), fresh |-> TRUE]
  /\ UNCHANGED <<alive, cowKey, complete>>

\* ObjectState::write of v at offset 0 of the ObjectState getWriteable returned
write(v) ==
  /\ UNCHANGED <<rvars, cvars, dvars>>
  /\ last.op = "getWriteable"
  /\ heap' = [heap EXCEPT ![last.ret].contents = v]
  /\ last' = [last EXCEPT !.op = "write"]
  /\ UNCHANGED <<alive, cowKey, objects, complete>>

Next ==
  \/ Construct
  \/ \E b \in ASIds : CopyConstruct(b)
  \/ \E a \in ASIds : Destroy(a)
  \/ \E a \in ASIds, c \in BOOLEAN : SetComplete(a, c)
  \/ \E a \in ASIds, mo \in MOs, v \in Bytes : bindObject(a, mo, v)
  \/ \E a \in ASIds, mo \in MOs : unbindObject(a, mo)
  \/ \E a \in ASIds, mo \in MOs : getWriteable(a, mo)
  \/ \E v \in Bytes : write(v)

Spec == Init /\ [][Next]_vars

TypeOK ==
  /\ alive \in [ASIds -> BOOLEAN]
  /\ cowKey \in [ASIds -> 0..MaxKey]
  /\ objects \in [ASIds -> [MOs -> OSIds \cup {NoOS}]]
  /\ complete \in [ASIds -> BOOLEAN]
  /\ \A o \in OSIds : heap[o].used <=> o \in Held(objects)
  /\ objects = Renumbered(objects, FirstRefs(objects, 1, <<>>))
  /\ ~heap[FreshOS].used

\* ------------------------------------------- copyOutConcretes / copyInConcretes

\* ObjectState::setReadOnly(true), on an ObjectState the address space owns
setReadOnly(a, mo) ==
  /\ UNCHANGED <<rvars, cvars, dvars>>
  /\ alive[a]
  /\ objects[a][mo] # NoOS
  /\ Owns(cowKey[a], heap[objects[a][mo]])
  /\ ~heap[objects[a][mo]].readOnly
  /\ heap' = [heap EXCEPT ![objects[a][mo]].readOnly = TRUE]
  /\ last' = [NoOp EXCEPT !.op = "setReadOnly", !.as = a, !.mo = mo]
  /\ UNCHANGED <<alive, cowKey, objects, complete>>

\* native code writes v at the address MemoryObject mo was allocated at
externalWrite(mo, v) ==
  /\ UNCHANGED <<rvars, dvars, alive, cowKey, objects, complete, heap, cret>>
  /\ mem[mo] # v
  /\ mem' = [mem EXCEPT ![mo] = v]
  /\ last' = [NoOp EXCEPT !.op = "externalWrite", !.mo = mo]

\* copyOutConcretes(): "Copy the concrete values of all managed ObjectStates
\* into the actual system memory location they were allocated at"
copyOutConcretes(a) ==
  /\ UNCHANGED <<rvars, dvars, alive, cowKey, objects, complete, heap, cret>>
  /\ alive[a]
  /\ mem' = [mo \in MOs |->
               IF objects[a][mo] # NoOS THEN heap[objects[a][mo]].contents ELSE mem[mo]]
  /\ last' = [NoOp EXCEPT !.op = "copyOutConcretes", !.as = a]

\* "ObjectStates will only be written to (and thus, potentially copied) if
\* the memory values are different from the current concrete values"
MemoryAlwaysDiffers(os, m) == TRUE
MemoryDiffers(os, m) == m # os.contents

\* "\retval false The copy failed because a read-only object was modified"
ReadOnlyIgnored(os) == FALSE
ReadOnlyModified(os) == os.readOnly

\* getWriteable(mo, os) inside copyInConcrete, then the write of byte m to the
\* ObjectState it returned; the heap slots are renumbered afterwards
WriteThrough(a, mo, objs, h, m) ==
  LET os == objs[a][mo]
      inPlace == getWriteableInPlace(cowKey[a], h[os])
      wos == IF inPlace THEN os ELSE FreshOS
      objs1 == IF inPlace THEN objs ELSE [objs EXCEPT ![a][mo] = FreshOS]
      h1 == IF inPlace THEN h
            ELSE [h EXCEPT ![FreshOS] =
                    [CopyObjectState(h[os]) EXCEPT !.copyOnWriteOwner = cowKey[a]]]
      h2 == [h1 EXCEPT ![wos].contents = m]
      ord == FirstRefs(objs1, 1, <<>>)
  IN [ok |-> TRUE, objects |-> Renumbered(objs1, ord), heap |-> Compacted(h2, ord)]

\* copyInConcrete(mo, os, src_address)
copyInConcrete(a, mo, objs, h) ==
  LET os == h[objs[a][mo]] IN
  IF MemoryDiffers(os, mem[mo])
  THEN IF ReadOnlyModified(os)
       THEN [ok |-> FALSE, objects |-> objs, heap |-> h]
       ELSE WriteThrough(a, mo, objs, h, mem[mo])
  ELSE [ok |-> TRUE, objects |-> objs, heap |-> h]

\* the loop of copyInConcretes over the bindings from mo on: it returns false
\* at the first copyInConcrete that fails
RECURSIVE copyInFrom(_, _, _, _)
copyInFrom(a, mo, objs, h) ==
  IF mo > NumMO THEN [ok |-> TRUE, objects |-> objs, heap |-> h]
  ELSE IF objs[a][mo] = NoOS THEN copyInFrom(a, mo + 1, objs, h)
  ELSE LET r == copyInConcrete(a, mo, objs, h) IN
       IF r.ok THEN copyInFrom(a, mo + 1, r.objects, r.heap) ELSE r

\* bool copyInConcretes()
copyInConcretes(a) ==
  /\ UNCHANGED <<rvars, dvars, alive, cowKey, complete, mem>>
  /\ alive[a]
  /\ \E r \in {copyInFrom(a, 1, objects, heap)} :
       /\ objects' = r.objects
       /\ heap' = r.heap
       /\ cret' = [ok |-> r.ok,
                  afterCopyOut |-> last.op = "copyOutConcretes" /\ last.as = a]
  /\ last' = [NoOp EXCEPT !.op = "copyInConcretes", !.as = a]

NextConcretes ==
  \/ \E b \in ASIds : CopyConstruct(b)
  \/ \E a \in ASIds, mo \in MOs, v \in Bytes : bindObject(a, mo, v)
  \/ \E a \in ASIds, mo \in MOs : setReadOnly(a, mo)
  \/ \E mo \in MOs, v \in Bytes : externalWrite(mo, v)
  \/ \E a \in ASIds : copyOutConcretes(a)
  \/ \E a \in ASIds : copyInConcretes(a)

SpecConcretes == Init /\ [][NextConcretes]_vars

\* --------------------------------------------- ordering of DistanceResults

\* the i-th of the three results is replaced by d and all are compared anew
compare(i, d) ==
  /\ UNCHANGED <<cowvars, rvars, cvars>>
  /\ UNCHANGED <<pc, frames, distanceResultCache, postTargetWeight, dres>>
  /\ dcmp.x[i] # d
  /\ dcmp' = Compared([dcmp.x EXCEPT ![i] = d])

NextOrder ==
  \E i \in 1..3, d \in DistanceResults : compare(i, d)

SpecOrder == Init /\ [][NextOrder]_vars

\* ------------------------------------------------------- pointer resolution

RMOs == 1..NumRObj

\* MemoryObject::address: the objects lie MaxSize apart, so that no two overlap,
\* and not in the order of their ids (id 1 has the highest address)
Address(m) == ((m + NumRObj - 2) % NumRObj) * MaxSize

\* the concrete values a pointer may take
Addrs == 0..(NumRObj * MaxSize - 1)

\* a symbolic pointer under the state's constraints: its feasible values
Pointers == {V \in SUBSET Addrs : Cardinality(V) \in 1..MaxPtrValues}

Min(V) == CHOOSE x \in V : \A y \in V : x <= y
Max(V) == CHOOSE x \in V : \A y \in V : y <= x

\* MemoryObjectLT: "Function object ordering MemoryObject's by address"
MemoryObjectLTById(a, b) == a < b
MemoryObjectLT(a, b) == Address(a) < Address(b)

\* ImmutableMap::replace under MemoryObjectLT: the keys stay in order
MapReplace(m, mo) ==
  SelectSeq(m, LAMBDA e : MemoryObjectLT(e, mo)) \o <<mo>>
    \o SelectSeq(m, LAMBDA e : MemoryObjectLT(mo, e))

\* ImmutableMap::remove
MapRemove(m, mo) ==
  SelectSeq(m, LAMBDA e : MemoryObjectLT(e, mo) \/ MemoryObjectLT(mo, e))

Bound(m) == {m[i] : i \in 1..Len(m)}

\* the bounds check of a MemoryObject: address <= v < address + size
InBounds(v, mo) == Address(mo) <= v /\ v < Address(mo) + rsize[mo]

\* the solver's answers when it does not time out
MayBeTrueInclusive(V, mo) == \E v \in V : Address(mo) <= v /\ v <= Address(mo) + rsize[mo]
MayBeTrue(V, mo) == \E v \in V : InBounds(v, mo)
MustBeTrue(V, mo) == \A v \in V : InBounds(v, mo)

\* a solver query: it is answered, or it times out
QueryOutcomes == {"answer", "timeout"}

\* bindObject of a MemoryObject newly allocated with size sz
RBind(mo, sz) ==
  /\ UNCHANGED <<cowvars, cvars, dvars>>
  /\ rcall.phase = "idle"
  /\ mo \notin Bound(rmap)
  /\ rmap' = MapReplace(rmap, mo)
  /\ rsize' = [rsize EXCEPT ![mo] = sz]
  /\ UNCHANGED <<rcopied, haltExecution, rcall>>

\* unbindObject
RUnbind(mo) ==
  /\ UNCHANGED <<cowvars, cvars, dvars>>
  /\ rcall.phase = "idle"
  /\ mo \in Bound(rmap)
  /\ rmap' = MapRemove(rmap, mo)
  /\ rsize' = [rsize EXCEPT ![mo] = 0]
  /\ UNCHANGED <<rcopied, haltExecution, rcall>>

\* AddressSpace(const AddressSpace &): resolution goes on on the copy
RCopy ==
  /\ UNCHANGED <<cowvars, cvars, dvars>>
  /\ rcall.phase = "idle"
  /\ ~rcopied
  /\ rmap' = CopyObjects(rmap)
  /\ rcopied' = TRUE
  /\ UNCHANGED <<rsize, haltExecution, rcall>>

\* the halt flag is set from outside, once
Halt ==
  /\ UNCHANGED <<cowvars, cvars, dvars>>
  /\ ~haltExecution
  /\ haltExecution' = TRUE
  /\ UNCHANGED <<rmap, rsize, rcopied, rcall>>

\* symbolic resolveOne, "result: An ObjectPair this address can resolve to
\* (when returning true)"; the pointer need not be unique to it, which is
\* what resolveOneIfUnique is for
ResolveOneAnyObject(V, mo) == TRUE
ResolveOneCanResolveTo(V, mo) == MayBeTrue(V, mo)

\* symbolic resolveOne(state, solver, ptr, result, success, haltExecution):
\* what it may return, for every example value the solver may give and every
\* query that may time out
ResolveOneOutcomes(V) ==
  LET fail == [success |-> FALSE, mo |-> 0, incomplete |-> FALSE]
      cut == [success |-> FALSE, mo |-> 0, incomplete |-> TRUE]
      hits == {m \in Bound(rmap) : ResolveOneCanResolveTo(V, m)}
      stray == \E v \in V : \A m \in Bound(rmap) : ~InBounds(v, m)
  IN IF haltExecution THEN {cut}
     ELSE {cut} \cup {[success |-> TRUE, mo |-> m, incomplete |-> FALSE] : m \in hits}
            \cup (IF stray THEN {fail} ELSE {})

\* a call of the symbolic resolveOne on pointer V
resolveOne(V) ==
  /\ UNCHANGED <<cowvars, cvars, dvars>>
  /\ rcall.phase = "idle"
  /\ \E r \in ResolveOneOutcomes(V) :
       rcall' = [NoCall EXCEPT !.phase = "resolved one", !.ptr = V, !.one = r]
  /\ UNCHANGED <<rmap, rsize, rcopied, haltExecution>>

\* ImmutableMap::lookup_previous: the last binding whose address is not above
\* the given one, <<>> when there is none
LookupPrevious(m, address) ==
  LET below == SelectSeq(m, LAMBDA e : Address(e) <= address)
  IN IF below = <<>> THEN <<>> ELSE <<below[Len(below)]>>

\* concrete resolveOne(address, result): "true iff an object was found"
resolveOneConcreteResult(m, address) ==
  LET prev == LookupPrevious(m, address)
  IN IF prev # <<>> /\ InBounds(address, prev[1])
     THEN [success |-> TRUE, mo |-> prev[1], incomplete |-> FALSE]
     ELSE [success |-> FALSE, mo |-> 0, incomplete |-> FALSE]

\* a call of the concrete resolveOne on a constant pointer
resolveOneConcrete(address) ==
  /\ UNCHANGED <<cowvars, cvars, dvars>>
  /\ rcall.phase = "idle"
  /\ rcall' = [NoCall EXCEPT !.phase = "resolved concrete", !.ptr = {address},
                 !.one = resolveOneConcreteResult(rmap, address)]
  /\ UNCHANGED <<rmap, rsize, rcopied, haltExecution>>

\* resolve, step 2: the candidates, the bound objects that reach into
\* [min, max], in the order of the map
Candidates(m, V) ==
  SelectSeq(m, LAMBDA mo : Address(mo) <= Max(V) /\ Address(mo) + rsize[mo] > Min(V))

\* "maxResolutions is non-zero and it was reached"
MaxReachedNoZeroCase(maxResolutions, n) == n >= maxResolutions
MaxReachedNever(maxResolutions, n) == FALSE
MaxReached(maxResolutions, n) == maxResolutions # 0 /\ n = maxResolutions

\* elapsed time exceeds timeout; the default time::Span() is no timeout
TimedOut(timeout, elapsed) == timeout # 0 /\ timeout < elapsed

\* the clock stops at one tick past the largest timeout
Tick(elapsed, dt) == IF elapsed + dt > MaxTimeout + 1 THEN MaxTimeout + 1 ELSE elapsed + dt

\* rl.push_back(op)
AppendPairFront(list, mo) == <<mo>> \o list
AppendPair(list, mo) == Append(list, mo)

\* checkPointerInObject(state, solver, p, op, rl, maxResolutions) with the
\* solver's outcomes may and must: <<code, rl, why>>, code 1 incomplete, 0
\* complete (p can only point to mo), 2 otherwise; why names the return taken
checkPointerInObject(V, mo, list, maxResolutions, may, must) ==
  IF may = "timeout" THEN <<1, list, "solver">>
  ELSE IF ~MayBeTrue(V, mo) THEN <<2, list, "none">>
  ELSE IF must = "timeout" THEN <<1, AppendPair(list, mo), "solver">>
  ELSE IF MustBeTrue(V, mo) THEN <<0, <<mo>>, "unique">>
  ELSE IF MaxReached(maxResolutions, Len(list) + 1)
       THEN <<1, AppendPair(list, mo), "maxResolutions">>
  ELSE <<2, AppendPair(list, mo), "none">>

\* resolve(state, solver, p, rl, maxResolutions, timeout), step 1: the bounds
\* of p are asked of the solver
resolveBegin(maxResolutions, timeout) ==
  /\ UNCHANGED <<cowvars, cvars, dvars>>
  /\ rcall.phase = "resolved one"
  /\ \E q \in QueryOutcomes, dt \in 0..1 :
       IF q = "timeout"
       THEN rcall' = [rcall EXCEPT !.phase = "done", !.maxResolutions = maxResolutions,
                        !.timeout = timeout, !.incomplete = TRUE, !.stop = "solver"]
       ELSE rcall' = [rcall EXCEPT !.phase = "iterating", !.maxResolutions = maxResolutions,
                        !.timeout = timeout, !.elapsed = Tick(0, dt), !.cursor = 1]
  /\ UNCHANGED <<rmap, rsize, rcopied, haltExecution>>

\* resolve, steps 2 to 5: one turn of the loop over the candidates.  resolve
\* is not passed the halt flag and does not read it.
resolveStep ==
  /\ UNCHANGED <<cowvars, cvars, dvars>>
  /\ rcall.phase = "iterating"
  /\ LET cands == Candidates(rmap, rcall.ptr) IN
       IF rcall.cursor > Len(cands)
       THEN rcall' = [rcall EXCEPT !.phase = "done", !.incomplete = FALSE,
                        !.stop = "exhausted"]
       ELSE IF TimedOut(rcall.timeout, rcall.elapsed)
       THEN rcall' = [rcall EXCEPT !.phase = "done", !.incomplete = TRUE,
                        !.stop = "timeout"]
       ELSE \E may \in QueryOutcomes, must \in QueryOutcomes, dt \in 0..1 :
            \E res \in {checkPointerInObject(rcall.ptr, cands[rcall.cursor], rcall.rl,
                                             rcall.maxResolutions, may, must)} :
              rcall' =
                IF res[1] = 2
                THEN [rcall EXCEPT !.rl = res[2], !.cursor = @ + 1,
                        !.elapsed = Tick(@, dt)]
                ELSE [rcall EXCEPT !.rl = res[2], !.elapsed = Tick(@, dt),
                        !.phase = "done", !.incomplete = (res[1] # 0),
                        !.stop = res[3]]
  /\ UNCHANGED <<rmap, rsize, rcopied, haltExecution>>

\* what resolve returns when nothing stops it: no maxResolutions, no timeout,
\* every query answered
RECURSIVE UnboundedRun(_, _, _, _)
UnboundedRun(V, cands, i, list) ==
  IF i > Len(cands) THEN list
  ELSE LET res == checkPointerInObject(V, cands[i], list, 0, "answer", "answer") IN
       IF res[1] = 2 THEN UnboundedRun(V, cands, i + 1, res[2]) ELSE res[2]

\* the caller has taken the results; the address space may change again
resolveReturn ==
  /\ UNCHANGED <<cowvars, cvars, dvars>>
  /\ rcall.phase \in {"done", "resolved concrete"}
  /\ rcall' = NoCall
  /\ UNCHANGED <<rmap, rsize, rcopied, haltExecution>>

NextResolution ==
  \/ \E mo \in RMOs, sz \in {0, MaxSize} : RBind(mo, sz)
  \/ \E mo \in RMOs : RUnbind(mo)
  \/ RCopy
  \/ Halt
  \/ \E address \in Addrs : resolveOneConcrete(address)
  \/ \E V \in Pointers : resolveOne(V)
  \/ \E n \in 0..MaxMaxResolutions, t \in 0..MaxTimeout : resolveBegin(n, t)
  \/ resolveStep
  \/ resolveReturn

SpecResolution == Init /\ [][NextResolution]_vars

\* ------------------------------------------------- copy-on-write properties

\* the bindings of the address spaces: <<a, mo>> with mo bound in a
Bindings(objs) == {x \in ASIds \X MOs : objs[x[1]][x[2]] # NoOS}

\* C1: in every reachable state every ObjectState bound in an address space
\* has copyOnWriteOwner <= that address space's cowKey.
C1_OwnerAtMostCowKey ==
  \A a \in ASIds : \A mo \in MOs :
    (alive[a] /\ objects[a][mo] # NoOS)
      => heap[objects[a][mo]].copyOnWriteOwner <= cowKey[a]

\* C1 witness: after a copy, two address spaces bind ObjectStates, one of
\* them stamped with an older epoch than the cowKey of its address space.
C1_Witness ==
  \E a, b \in ASIds : \E mo \in MOs :
    /\ a # b /\ alive[a] /\ alive[b]
    /\ objects[a][mo] # NoOS /\ objects[b][mo] # NoOS
    /\ heap[objects[a][mo]].copyOnWriteOwner < cowKey[a]
    /\ heap[objects[b][mo]].copyOnWriteOwner = cowKey[b]

\* C2: neither getWriteable nor the write through the ObjectState it returned
\* changes what any other address space reads through findObject, and the
\* maps keep their number of bindings.
C2_WriteIsolation ==
  [][last'.op \in {"getWriteable", "write"} =>
       /\ \A b \in ASIds \ {last'.as} : \A mo \in MOs :
            ReadThrough(heap', objects', b, mo) = ReadThrough(heap, objects, b, mo)
       /\ \A b \in ASIds : MapSize(objects'[b]) = MapSize(objects[b])]_vars

\* C2 witness: a write went through a copy made by getWriteable, and another
\* address space binding the same MemoryObject reads a different byte.
C2_Witness ==
  /\ last.op = "write" /\ last.fresh
  /\ \E b \in ASIds \ {last.as} :
       /\ alive[b] /\ objects[b][last.mo] # NoOS
       /\ ReadThrough(heap, objects, b, last.mo) = 0
       /\ ReadThrough(heap, objects, last.as, last.mo) = 1
       /\ MapSize(objects[b]) = MapSize(objects[last.as])

\* C3: getWriteable(mo, os) on a returns an ObjectState stamped with a's cowKey
\* that findObject(mo) on a returns too: os itself, nothing changed, when os was
\* stamped with a's cowKey, and else a new ObjectState with the contents of os,
\* bound to mo in a and nowhere else.
C3_GetWriteable ==
  [][last'.op = "getWriteable" =>
       LET a == last'.as
           mo == last'.mo
           ret == last'.ret
           os == objects[a][mo]
       IN /\ heap'[ret].used
          /\ heap'[ret].copyOnWriteOwner = cowKey'[a]
          /\ objects'[a][mo] = ret
          /\ IF heap[os].copyOnWriteOwner = cowKey[a]
             THEN ~last'.fresh /\ ret = os /\ heap' = heap /\ objects' = objects
             ELSE /\ last'.fresh
                  /\ heap'[ret].contents = heap[os].contents
                  /\ \A x \in Bindings(objects') :
                       objects'[x[1]][x[2]] = ret => x = <<a, mo>>]_vars

\* C3 witness: getWriteable returned a copy of a shared ObjectState.
C3_Witness ==
  /\ last.op = "getWriteable" /\ last.fresh
  /\ \E b \in ASIds \ {last.as} : alive[b] /\ objects[b][last.mo] # NoOS

\* C4 as stated: after as2 = clone(as1), as2.cowKey is distinct from and
\* strictly greater than as1.cowKey.
C4_Original ==
  [][last'.op = "copy" => cowKey'[last'.as] > cowKey'[last'.ret]]_vars

\* C4 amended: after as2 = clone(as1), as2.cowKey equals as1.cowKey, and both
\* are one more than as1.cowKey was before the clone.
C4_CopyKeys ==
  [][last'.op = "copy" =>
       /\ cowKey'[last'.as] = cowKey'[last'.ret]
       /\ cowKey'[last'.as] = cowKey[last'.ret] + 1
       /\ cowKey'[last'.as] > cowKey[last'.ret]]_vars

\* C4 witness: an address space was copied from one that was a copy itself.
C4_Witness ==
  last.op = "copy" /\ cowKey[last.as] > 2 /\ alive[last.ret]

\* C5: copy-construction leaves every existing binding on the same ObjectState
\* with the same owner stamp and contents, copies no ObjectState, gives the copy
\* exactly the source's bindings, and carries the complete flag over.
C5_CopyShares ==
  [][last'.op = "copy" =>
       LET n == last'.as
           b == last'.ret
       IN /\ objects'[n] = objects'[b]
          /\ Bindings(objects') =
               Bindings(objects) \cup {<<n, mo>> : mo \in {m \in MOs : objects[b][m] # NoOS}}
          /\ \A x \in Bindings(objects) :
               heap'[objects'[x[1]][x[2]]] = heap[objects[x[1]][x[2]]]
          /\ \A x, y \in Bindings(objects) :
               (objects'[x[1]][x[2]] = objects'[y[1]][y[2]])
                 <=> (objects[x[1]][x[2]] = objects[y[1]][y[2]])
          /\ Cardinality(Held(objects')) = Cardinality(Held(objects))
          /\ complete'[n] = complete[b]
          /\ complete'[b] = complete[b]]_vars

\* C5 witness: a complete address space with a binding was copied.
C5_Witness ==
  /\ last.op = "copy" /\ complete[last.as]
  /\ \E mo \in MOs : objects[last.as][mo] # NoOS

\* C6: an ObjectState stamped with the cowKey of an address space binding it
\* is bound in no other address space.
C6_OwnedIsUnshared ==
  \A a \in ASIds : \A mo \in MOs :
    (alive[a] /\ objects[a][mo] # NoOS
       /\ heap[objects[a][mo]].copyOnWriteOwner = cowKey[a])
      => \A b \in ASIds \ {a} : \A m \in MOs : objects[b][m] # objects[a][mo]

\* C6 witness: two address spaces hold the same cowKey and bind the same
\* MemoryObject, one of them to an ObjectState it owns.
C6_Witness ==
  \E a, b \in ASIds : \E mo \in MOs :
    /\ a # b /\ alive[a] /\ alive[b] /\ cowKey[a] = cowKey[b]
    /\ objects[a][mo] # NoOS /\ objects[b][mo] # NoOS
    /\ heap[objects[a][mo]].copyOnWriteOwner = cowKey[a]

\* ------------------------------------------------------ resolution properties

IsPrefix(p, q) == Len(p) <= Len(q) /\ \A i \in 1..Len(p) : p[i] = q[i]

IsSubSeq(p, q) ==
  \E f \in [1..Len(p) -> 1..Len(q)] :
    /\ \A i \in 1..Len(p) : p[i] = q[f[i]]
    /\ \A i, j \in 1..Len(p) : i < j => f[i] < f[j]

\* C7: the resolution list is in strictly increasing address order, and follows
\* the order of the objects map, in an address space and in its copy alike,
\* in whatever order the objects were bound.
C7_AddressOrder ==
  /\ \A i, j \in 1..Len(rcall.rl) :
       i < j => Address(rcall.rl[i]) < Address(rcall.rl[j])
  /\ \A i, j \in 1..Len(rmap) : i < j => Address(rmap[i]) < Address(rmap[j])
  /\ IsSubSeq(rcall.rl, rmap)

\* C7 witness: resolve on a copied address space returned every object, and the
\* objects' ids (the order of their allocation) are not in address order.
C7_Witness ==
  /\ rcall.phase = "done" /\ rcopied
  /\ Len(rcall.rl) = NumRObj
  /\ \E i, j \in 1..Len(rcall.rl) : i < j /\ rcall.rl[i] > rcall.rl[j]

C10_PartialList ==
  (rcall.phase = "done" /\ rcall.incomplete) =>
    LET cands == Candidates(rmap, rcall.ptr) IN
    /\ IsPrefix(rcall.rl, UnboundedRun(rcall.ptr, cands, 1, <<>>))
    /\ rcall.maxResolutions # 0 => Len(rcall.rl) <= rcall.maxResolutions
    /\ (rcall.stop = "timeout" /\
        \E i \in 1..(rcall.cursor - 1) : MayBeTrue(rcall.ptr, cands[i]))
         => rcall.rl # <<>>

\* C10 witness: the time ran out with one pair resolved, short of the list of
\* the unbounded run.
C10_Witness ==
  /\ rcall.phase = "done" /\ rcall.incomplete /\ rcall.stop = "timeout"
  /\ Len(rcall.rl) >= 1
  /\ Len(UnboundedRun(rcall.ptr, Candidates(rmap, rcall.ptr), 1, <<>>)) > Len(rcall.rl)

\* C11: the concrete resolveOne returns true with object mo exactly when a
\* bound mo has  address(mo) <= address < address(mo) + size(mo), false
\* otherwise: base+size-1 resolves to the object, base+size does not, and the
\* object returned is the only bound one that contains the address.
C11_ConcreteResolveOne ==
  rcall.phase = "resolved concrete" =>
    \E address \in rcall.ptr :
      LET holds(mo) == Address(mo) <= address /\ address < Address(mo) + rsize[mo]
          within == {mo \in Bound(rmap) : holds(mo)}
      IN /\ rcall.ptr = {address}
         /\ rcall.one.success <=> within # {}
         /\ rcall.one.success => within = {rcall.one.mo}
         /\ ~rcall.one.success => rcall.one.mo = 0
         /\ \A mo \in Bound(rmap) :
              /\ (rsize[mo] > 0 /\ address = Address(mo) + rsize[mo] - 1)
                   => (rcall.one.success /\ rcall.one.mo = mo)
              /\ address = Address(mo) + rsize[mo] => rcall.one.mo # mo

\* C11 witness: an address one past the end of a bound object, with another
\* object bound below it, did not resolve.
C11_Witness ==
  /\ rcall.phase = "resolved concrete" /\ ~rcall.one.success
  /\ Len(rmap) >= 2
  /\ \E address \in rcall.ptr, mo \in Bound(rmap) :
       rsize[mo] = MaxSize /\ address = Address(mo) + rsize[mo]

\* C11 second witness: the last address of a bound object resolved to it.
C11_WitnessLast ==
  /\ rcall.phase = "resolved concrete" /\ rcall.one.success
  /\ \E address \in rcall.ptr :
       rsize[rcall.one.mo] = MaxSize /\ address = Address(rcall.one.mo) + MaxSize - 1

\* C12: resolution never returns a zero-sized MemoryObject: neither the
\* concrete resolveOne, nor the symbolic resolveOne, nor resolve yields a pair
\* whose MemoryObject has size 0.
C12_NoZeroSized ==
  /\ rcall.one.success => rcall.one.mo \in Bound(rmap) /\ rsize[rcall.one.mo] > 0
  /\ \A i \in 1..Len(rcall.rl) :
       rcall.rl[i] \in Bound(rmap) /\ rsize[rcall.rl[i]] > 0

\* C12 witness: resolve completed on a pointer that may take the address of a
\* bound zero-sized object, and returned another object.
C12_Witness ==
  /\ rcall.phase = "done" /\ ~rcall.incomplete /\ rcall.rl # <<>>
  /\ \E z \in Bound(rmap) : rsize[z] = 0 /\ Address(z) \in rcall.ptr

\* --------------------------------------------------- copyInConcretes properties

\* the bound read-only objects of a whose memory differs from their values
ReadOnlyChanged(a, objs, h, m) ==
  {mo \in MOs : /\ objs[a][mo] # NoOS
                /\ h[objs[a][mo]].readOnly
                /\ m[mo] # h[objs[a][mo]].contents}

\* C13: copyInConcretes returns false when the memory of a read-only bound
\* object differs from the object's concrete values and true otherwise, and
\* it never changes the contents of a read-only ObjectState.
C13_CopyInReadOnly ==
  [][last'.op = "copyInConcretes" =>
       /\ cret'.ok <=> ReadOnlyChanged(last'.as, objects, heap, mem) = {}
       /\ \A b \in ASIds, mo \in MOs :
            (objects[b][mo] # NoOS /\ heap[objects[b][mo]].readOnly) =>
              /\ objects'[b][mo] # NoOS
              /\ heap'[objects'[b][mo]] = heap[objects[b][mo]]]_vars

\* C13 witness: copyInConcretes returned false on an address space whose
\* read-only object differs from the memory, which another address space shares.
C13_Witness ==
  /\ last.op = "copyInConcretes" /\ ~cret.ok
  /\ ReadOnlyChanged(last.as, objects, heap, mem) # {}
  /\ \E b \in ASIds, mo \in MOs :
       b # last.as /\ alive[b] /\ objects[b][mo] # NoOS
         /\ objects[b][mo] = objects[last.as][mo]

\* C14: copyInConcretes right after copyOutConcretes on the same address
\* space, with no external write in between, returns true and changes nothing:
\* no ObjectState is written to or copied, shared ones included.
C14_CopyOutCopyIn ==
  [][(last.op = "copyOutConcretes" /\ last'.op = "copyInConcretes"
        /\ last'.as = last.as) =>
       /\ cret'.ok
       /\ heap' = heap /\ objects' = objects /\ cowKey' = cowKey /\ mem' = mem]_vars

\* C14 witness: copyInConcretes came right after copyOutConcretes on an address
\* space that does not own its ObjectState, which another address space
\* shares, with a read-only mark or without.
C14_Witness ==
  /\ last.op = "copyInConcretes" /\ cret.afterCopyOut /\ cret.ok
  /\ \E b \in ASIds, mo \in MOs :
       /\ b # last.as /\ alive[b] /\ objects[b][mo] # NoOS
       /\ objects[b][mo] = objects[last.as][mo]
       /\ ~Owns(cowKey[last.as], heap[objects[last.as][mo]])
       /\ mem[mo] = heap[objects[last.as][mo]].contents
       /\ mem[mo] # 0

\* ------------------------------------------------------ DistanceResult properties

\* the place of a DistanceResult in the order (verdict, weight, not inside),
\* with Done first, then Continue, then Miss
LexKey(d) ==
  LET rank == IF d.result = 0 THEN 0 ELSE IF d.result = 1 THEN 1 ELSE 2
  IN (rank * (MaxWeight + 1) + d.weight) * 2 + (IF d.isInsideFunction THEN 0 ELSE 1)

\* C15: operator< orders DistanceResults lexicographically by (verdict rank,
\* weight, !isInsideFunction) with Done < Continue < Miss: a smaller verdict
\* wins, then a smaller weight, then isInsideFunction = true.
C15_LexicographicOrder ==
    \A i, j \in 1..3 :
      LET a == dcmp.x[i]
          b == dcmp.x[j]
      IN /\ dcmp.lt[i][j] <=> LexKey(a) < LexKey(b)
         /\ a.result < b.result => dcmp.lt[i][j]
         /\ (a.result = b.result /\ a.weight < b.weight) => dcmp.lt[i][j]
         /\ (a.result = b.result /\ a.weight = b.weight
               /\ a.isInsideFunction /\ ~b.isInsideFunction) => dcmp.lt[i][j]

\* C15 witness: a Done result outside the function and of larger weight is
\* below a Continue result inside it, and two results that differ only in
\* isInsideFunction are ordered by it.
C15_Witness ==
  /\ dcmp.x[1].result = 0 /\ dcmp.x[2].result = 1
  /\ dcmp.x[1].weight > dcmp.x[2].weight
  /\ ~dcmp.x[1].isInsideFunction /\ dcmp.x[2].isInsideFunction
  /\ dcmp.lt[1][2]
  /\ dcmp.x[3] = [dcmp.x[2] EXCEPT !.isInsideFunction = FALSE]
  /\ dcmp.lt[2][3] /\ ~dcmp.lt[3][2]

\* C16: operator< is a strict weak order: irreflexive, asymmetric, transitive,
\* and incomparability is transitive.
C16_StrictWeakOrder ==
    LET lt == dcmp.lt
        inc(i, j) == ~lt[i][j] /\ ~lt[j][i]
    IN /\ \A i \in 1..3 : ~lt[i][i]
       /\ \A i, j \in 1..3 : lt[i][j] => ~lt[j][i]
       /\ \A i, j, k \in 1..3 : (lt[i][j] /\ lt[j][k]) => lt[i][k]
       /\ \A i, j, k \in 1..3 : (inc(i, j) /\ inc(j, k)) => inc(i, k)

\* C16 witness: three distinct results in a chain x[1] < x[2] < x[3] that
\* differ in verdict, in weight and in isInsideFunction.
C16_Witness ==
  /\ dcmp.lt[1][2] /\ dcmp.lt[2][3] /\ dcmp.lt[1][3]
  /\ dcmp.x[1].result # dcmp.x[3].result
  /\ dcmp.x[1].result = dcmp.x[2].result /\ dcmp.x[1].weight = dcmp.x[2].weight
  /\ dcmp.x[2].weight # dcmp.x[3].weight

\* ------------------------------------------------------ DistanceCalculator

\* SpeculativeStateCompare that forgets the block
SpeculativeStateCompareKindOnly(a, b) == a.kind = b.kind

\* SpeculativeStateCompare::operator()
SpeculativeStateCompare(a, b) == a.kb = b.kb /\ a.kind = b.kind

\* SpeculativeState(kb, kind)
SpeculativeState(kb, kind) == [kb |-> kb, kind |-> kind]

\* the entries of distanceResultCache[target] that the key finds
Find(cache, target, st) ==
  {e \in cache : e.target = target /\ SpeculativeStateCompare(e.state, st)}

\* the weight table once tryGetPostTargetWeight has answered for (kb, target)
\* under the frames fr
PostAnswered(post, kb, kind, fr, target) ==
  IF kind = PostTarget /\ post[kb][target] = NoWeight
  THEN [post EXCEPT ![kb][target] = FrameWeight(fr, target)]
  ELSE post

\* the execution state moves to a successor block
Step ==
  /\ UNCHANGED <<cowvars, rvars, cvars, dcmp>>
  /\ pc \notin CallBlocks
  /\ \E b \in Successors(pc) : pc' = b
  /\ dres' = NoQuery
  /\ UNCHANGED <<frames, distanceResultCache, postTargetWeight>>

\* the execution state calls: a frame is pushed
Call ==
  /\ UNCHANGED <<cowvars, rvars, cvars, dcmp>>
  /\ pc \in CallBlocks
  /\ frames' = Append(frames, pc)
  /\ pc' = Entry(Callee(pc))
  /\ dres' = NoQuery
  /\ UNCHANGED <<distanceResultCache, postTargetWeight>>

\* the execution state returns: the frame is popped
Return ==
  /\ UNCHANGED <<cowvars, rvars, cvars, dcmp>>
  /\ Successors(pc) = {}
  /\ frames # <<>>
  /\ pc' = ReturnBlock(frames[Len(frames)])
  /\ frames' = SubSeq(frames, 1, Len(frames) - 1)
  /\ dres' = NoQuery
  /\ UNCHANGED <<distanceResultCache, postTargetWeight>>

\* getDistance(es, target): the private getDistance(kb, kind, target) answers
\* from the cache, or computes the distance and inserts it
getDistance(target) ==
  /\ UNCHANGED <<cowvars, rvars, cvars, dcmp>>
  /\ UNCHANGED <<pc, frames>>
  /\ \E kind \in {Classify(pc, frames, target)} :
     \E found \in {Find(distanceResultCache, target, SpeculativeState(pc, kind))} :
       IF found # {}
       THEN /\ \E e \in found :
                 dres' = [target |-> target, kind |-> kind, hit |-> TRUE,
                          result |-> e.value]
            /\ UNCHANGED <<distanceResultCache, postTargetWeight>>
       ELSE /\ Cardinality(distanceResultCache) < MaxCacheEntries
            /\ postTargetWeight' =
                 PostAnswered(postTargetWeight, pc, kind, frames, target)
            /\ \E r \in {computeDistance(pc, kind, target, postTargetWeight')} :
                 /\ distanceResultCache' = distanceResultCache \cup
                      {[target |-> target, state |-> SpeculativeState(pc, kind),
                        value |-> r]}
                 /\ dres' = [target |-> target, kind |-> kind, hit |-> FALSE,
                             result |-> r]

NextDistance ==
  \/ Step
  \/ Call
  \/ Return
  \/ \E target \in Targets : getDistance(target)

SpecDistance == Init /\ [][NextDistance]_vars

\* ---------------------------------------------------------------- C17

\* the cache holds, for each of its keys, what computeDistance returns
CacheIsComputed ==
  \A e \in distanceResultCache :
    /\ e.value = computeDistance(e.state.kb, e.state.kind, e.target, postTargetWeight)
    /\ \A f \in distanceResultCache :
         (f.target = e.target /\ f.state = e.state) => f = e

\* the last call returned what computeDistance returns for its key
AnswerIsComputed ==
  dres # NoQuery =>
    dres.result = computeDistance(pc, dres.kind, dres.target, postTargetWeight)

RECURSIVE ReachedWithin(_, _)
ReachedWithin(a, n) ==
  IF n = 0 THEN {a}
  ELSE LET R == ReachedWithin(a, n - 1)
       IN R \cup UNION {Successors(x) : x \in R}

\* w is the length of a shortest path from a to b
IsShortestPath(a, b, w) ==
  /\ b \in ReachedWithin(a, w)
  /\ w > 0 => b \notin ReachedWithin(a, w - 1)

\* C18: for a target in the function of the current block getDistance returns
\* the length of a shortest control-flow path to the target with
\* isInsideFunction true, Done exactly when the state is at the target and
\* Continue with a positive weight otherwise, in and around the loop too:
\* weight 4 at the entry of main, weight 1 at the loop test next to the target.
C18_LocalTarget ==
  (dres # NoQuery /\ Parent(pc) = Parent(dres.target)) =>
    /\ dres.kind = LocalTarget
    /\ dres.result.isInsideFunction
    /\ IsShortestPath(pc, dres.target, dres.result.weight)
    /\ dres.result.result = Done <=> pc = dres.target
    /\ dres.result.result = Done <=> dres.result.weight = 0
    /\ pc # dres.target =>
         dres.result.result = Continue /\ dres.result.weight > 0
    /\ pc = "m0" => dres.result.weight = 4
    /\ pc = "m3" => dres.result.weight = 1

\* the state is asked at the loop test after it was asked in the loop body
C18_Witness ==
  /\ dres # NoQuery
  /\ dres.target = "m5"
  /\ pc = "m3"
  /\ dres.result = [result |-> Continue, weight |-> 1, isInsideFunction |-> TRUE]
  /\ \E e \in distanceResultCache : e.state.kb = "m4" /\ e.target = "m5"

\* ---------------------------------------------------------------- C19

\* the frames of fr whose function is the target's
FramesOfTarget(fr, target) ==
  {i \in 1..Len(fr) : Parent(fr[i]) = Parent(target)}

\* w is the least length of a path to the target from a block one of those
\* frames returns to
IsFrameMinimum(fr, target, w) ==
  /\ \E i \in FramesOfTarget(fr, target) :
       \E b \in Successors(fr[i]) : IsShortestPath(b, target, w)
  /\ \A i \in FramesOfTarget(fr, target) :
       \A b \in Successors(fr[i]) : w > 0 => target \notin ReachedWithin(b, w - 1)

\* the last call was for a post target, or for a target nothing reaches
PostQuery == dres # NoQuery /\ dres.kind = PostTarget
NoneQuery == dres # NoQuery /\ dres.kind = NoneTarget

OwnsNothing(keys, objs, h, a) ==
  \A mo \in MOs : objs[a][mo] # NoOS => ~Owns(keys[a], h[objs[a][mo]])

\* C20: the copy constructor adds exactly 1 to the cowKey of its source and
\* gives the copy that value, so that just after it neither of the two owns
\* any ObjectState it binds; getWriteable by an address space on an ObjectState
\* stamped before its cowKey returns a new ObjectState that no other address
\* space binds, and the others keep what they bound.  bindObject,
\* unbindObject, getWriteable, a write and an assignment of complete leave
\* every cowKey as it was, and the copy constructor leaves those of the
\* address spaces other than its source and the copy.
C20_CowKeyFrame ==
  [][/\ last'.op = "copy" =>
          LET n == last'.as
              b == last'.ret
          IN /\ cowKey'[b] = cowKey[b] + 1
             /\ cowKey'[n] = cowKey'[b]
             /\ OwnsNothing(cowKey', objects', heap', b)
             /\ OwnsNothing(cowKey', objects', heap', n)
             /\ \A a \in ASIds \ {n, b} : cowKey'[a] = cowKey[a]
     /\ last'.op = "getWriteable" =>
          LET a == last'.as
              mo == last'.mo
          IN heap[objects[a][mo]].copyOnWriteOwner < cowKey[a] =>
               /\ last'.fresh
               /\ \A x \in Bindings(objects') :
                    objects'[x[1]][x[2]] = last'.ret => x = <<a, mo>>
               /\ \A c \in ASIds \ {a} : \A m \in MOs :
                    /\ (objects'[c][m] = NoOS) <=> (objects[c][m] = NoOS)
                    /\ objects[c][m] # NoOS =>
                         heap'[objects'[c][m]] = heap[objects[c][m]]
     /\ last'.op \in {"bindObject", "unbindObject", "getWriteable", "write",
                      "setComplete"} => cowKey' = cowKey]_vars

\* C20 witness: the source of a copy, at the same cowKey as the copy, got a
\* new ObjectState from getWriteable while the copy still binds the old one.
C20_Witness ==
  /\ last.op = "getWriteable" /\ last.fresh /\ last.as = 1
  /\ alive[2] /\ cowKey[1] = cowKey[2] /\ cowKey[1] = 2
  /\ objects[2][last.mo] # NoOS
  /\ heap[objects[2][last.mo]].copyOnWriteOwner = 1
  /\ heap[objects[1][last.mo]].copyOnWriteOwner = 2
====
